---- MODULE Spec2Model ----
(***************************************************************************)
(* Model of the stream-repurposing pipeline: main.py drives transcription, *)
(* LLM analysis, video assembly (src/video_processor.py) and text          *)
(* generation (src/content_generator.py); src/analyzer.py parses the LLM   *)
(* reply and src/llm/__init__.py selects the provider.                     *)
(*                                                                         *)
(* Text is a sequence of elements.  An element is either one character,    *)
(* [ch |-> c], or one complete JSON text, [json |-> v], carried whole with *)
(* the value v it denotes: json.loads is the standard library, and the     *)
(* repository's own code only searches for fences and slices around it.    *)
(* A character is named by a string: "backtick", "newline", "space", "j".   *)
(***************************************************************************)
EXTENDS Integers, Sequences, FiniteSets, TLC

\* ------------------------------------------------------------------ bounds
\* Times of a range are drawn from 0..MaxTime.
MaxTime == 2
\* An analysis handed to VideoProcessor.process alone holds at most MaxSegs
\* ranges, long-form and short-form together.
MaxSegs == 2
\* An analysis the LLM replies with in a run of the whole pipeline holds at
\* most MaxReplySegs ranges, long-form and short-form together.
MaxReplySegs == 3

\* ------------------------------------------------------------- text helpers
Ch(c) == [ch |-> c]

Str(cs) == [i \in 1..Len(cs) |-> Ch(cs[i])]

FENCE == Str(<<"backtick", "backtick", "backtick">>)

FENCE_JSON == Str(<<"backtick", "backtick", "backtick", "j", "s", "o", "n">>)

NL == Str(<<"newline">>)

WHITESPACE == {Ch("space"), Ch("newline")}

\* s[a:b] of Python with 1-based a and exclusive 1-based b.
Slice(s, a, b) == SubSeq(s, a, b - 1)

\* Position (1-based) of the first occurrence of pat in s at or after from; 0 if none.
Find(s, pat, from) ==
  LET hits == {i \in from..(Len(s) - Len(pat) + 1) : SubSeq(s, i, i + Len(pat) - 1) = pat}
  IN IF hits = {} THEN 0 ELSE CHOOSE i \in hits : \A j \in hits : i <= j

\* pat in s
Contains(s, pat) == Find(s, pat, 1) # 0

\* str.strip(): leading and trailing whitespace removed.
Strip(s) ==
  LET keep == {i \in 1..Len(s) : s[i] \notin WHITESPACE}
  IN IF keep = {} THEN <<>>
     ELSE LET lo == CHOOSE i \in keep : \A j \in keep : i <= j
              hi == CHOOSE i \in keep : \A j \in keep : j <= i
          IN SubSeq(s, lo, hi)

\* ------------------------------------------------------------ JSON values
Times == 0..MaxTime

Ranges == [start : Times, end : Times]

\* The lists of n elements of S.
ListsOfLen(S, n) == IF n = 0 THEN {<<>>} ELSE [1..n -> S]

\* A JSON object as the pipeline reads it: which of the two range fields are
\* present, and their lists.  An absent field holds the empty list here and is
\* never read.
Dict(has, long, short) == [kind |-> "dict", has |-> has, long_form |-> long, short_form |-> short]

JsonList == [kind |-> "list", has |-> {}, long_form |-> <<>>, short_form |-> <<>>]

JsonNumber == [kind |-> "number", has |-> {}, long_form |-> <<>>, short_form |-> <<>>]

\* The fields an analysis with a long-form ranges and b short-form ranges may
\* hold: an empty list may also be absent.
FieldSets(a, b) ==
  {h \in SUBSET {"long_form", "short_form"} :
     /\ (a > 0 => "long_form" \in h)
     /\ (b > 0 => "short_form" \in h)}

\* d is a JSON object whose ranges come from R, at most n of them in all.
IsAnalysisOver(d, R, n) ==
  \E a \in 0..n : \E b \in 0..(n - a) :
    \E l \in ListsOfLen(R, a), s \in ListsOfLen(R, b), has \in FieldSets(a, b) :
      d = Dict(has, l, s)

\* The range of the analyses the whole pipeline is run on: the one that spans
\* the recording.
SampleRanges == {[start |-> 0, end |-> MaxTime]}

\* The JSON values the LLM replies with in a run of the whole pipeline.
JsonValues ==
  UNION {{Dict(has, l, s) :
            l \in ListsOfLen(SampleRanges, k[1]),
            s \in ListsOfLen(SampleRanges, k[2]),
            has \in FieldSets(k[1], k[2])} :
           k \in {c \in (0..MaxReplySegs) \X (0..MaxReplySegs) : c[1] + c[2] <= MaxReplySegs}}
    \cup {JsonList, JsonNumber}

JsonText(v) == <<[json |-> v]>>

\* ---------------------------------------------------------- analyzer.py
Raised(e) == [ok |-> FALSE, error |-> e]

Returned(v) == [ok |-> TRUE, value |-> v]

\* json.loads: exactly one JSON text, nothing else around it.
json_loads(s) ==
  IF Len(s) = 1 /\ "json" \in DOMAIN s[1]
  THEN Returned(s[1].json)
  ELSE Raised("JSONDecodeError")

\* str.index(pat, from) raises ValueError when pat is not found.
ExtractAfter(response, start) ==
  LET end == Find(response, FENCE, start)
  IN IF end = 0 THEN Raised("ValueError") ELSE Returned(Strip(Slice(response, start, end)))

\* Lines 77-86 of _parse_response: the text handed to json.loads.
ExtractJsonStr(response) ==
  IF Contains(response, FENCE_JSON)
  THEN ExtractAfter(response, Find(response, FENCE_JSON, 1) + 7)
  ELSE IF Contains(response, FENCE)
       THEN ExtractAfter(response, Find(response, FENCE, 1) + 3)
       ELSE Returned(Strip(response))

\* Both exceptions are caught and re-raised as ValueError (lines 89-90).
_parse_response(response) ==
  LET json_str == ExtractJsonStr(response)
  IN IF ~json_str.ok THEN Raised("ValueError")
     ELSE LET v == json_loads(json_str.value)
          IN IF v.ok THEN v ELSE Raised("ValueError")

\* ------------------------------------------------------- llm/__init__.py
None == "None"

\* str.lower() on the provider names the configurations below use.
Lower(name) ==
  CASE name = "OpenAI" -> "openai"
    [] OTHER -> name

ProviderNames == {"OpenAI", "anthropic", "ollama", "gemini"}

\* The value of the credential variable: unset, empty, or a key.
EnvValues == {None, "", "sk-key"}

\* A variant that tests `api_key is None` only.
FalsyNoneOnly(api_key) == api_key = None

\* `not api_key`: None and the empty string are both falsy.
Falsy(api_key) == api_key = None \/ api_key = ""

get_llm_provider(config, env) ==
  LET provider == Lower(config.provider)
  IN CASE provider = "openai" ->
            IF Falsy(env) THEN Raised("ValueError: API key not found")
            ELSE Returned("OpenAIProvider")
       [] provider = "anthropic" ->
            IF Falsy(env) THEN Raised("ValueError: API key not found")
            ELSE Returned("AnthropicProvider")
       [] provider = "ollama" -> Returned("OllamaProvider")
       [] OTHER -> Raised("ValueError: Unknown LLM provider")

\* ------------------------------------------------------------ file names
File(name) == [name |-> name, n |-> 0]

TRANSCRIPT == File("transcript.json")

ANALYSIS == File("analysis.json")

LONG_FORM == File("videos/long_form.mp4")

\* A variant that leaves the number out of the name.
ShortNameUnnumbered(i) == [name |-> "videos/shorts/short", n |-> 1]

\* f"short_{i:02d}.mp4"
ShortName(i) == [name |-> "videos/shorts/short", n |-> i]

\* f"segment_{i:03d}.mp4" in the temporary directory
SegmentName(i) == [name |-> "tmp/segment", n |-> i]

CONCAT_FILE == File("tmp/concat.txt")

WAV_FILE == File("tmp/input.wav")

WHISPER_OUTPUT == File("tmp/whisper_output.json")

TempNames == {"tmp/segment", "tmp/concat.txt", "tmp/input.wav", "tmp/whisper_output.json"}

\* (output_file, ...) of ContentGenerator.CONTENT_TYPES, in order.
CONTENT_TYPES == <<"twitter_thread", "reddit_post", "medium_article", "tweets", "telegram_post">>

\* f with name mapped to content (created or overwritten).
Write(f, name, content) == [k \in DOMAIN f \cup {name} |-> IF k = name THEN content ELSE f[k]]

\* A variant that leaves the temporary directory in place.
RemoveTempKeepsAll(f) == f

\* tempfile.TemporaryDirectory on exit: everything under it is removed.
RemoveTemp(f) == [k \in {d \in DOMAIN f : d.name \notin TempNames} |-> f[k]]

NoFiles == [k \in {} |-> 0]

\* What a file holds, where only its kind matters.
Content(kind) == [kind |-> kind]

\* ------------------------------------------------------------------ state
VARIABLES
  args,        \* the command line flags
  input_exists,\* whether the input file exists
  llm_config,  \* config["llm"]
  environ,     \* the value of the configured credential variable
  files,       \* the files under the output and temporary directories
  calls,       \* the external processes and LLM completions invoked so far
  pc,          \* where main is
  exit_code,   \* the process exit status, None while running
  error,       \* the exception that ended the run, None if none
  llm,         \* the providers the Analyzer and the ContentGenerator hold
  response,    \* the LLM reply being parsed
  analysis,    \* main's analysis
  vp,          \* the loop state of VideoProcessor: index and segment_files
  cg,          \* the index into CONTENT_TYPES in generate_all
  p_in,        \* a function of the Analyzer alone: the parts the replies are built
               \* from (_parse_response), the transcript (_format_transcript)
  p_out        \* a function of the Analyzer alone: the reply and the result per
               \* form (_parse_response), the listing (_format_transcript)

pipeVars == <<args, input_exists, llm_config, environ, files, calls, pc, exit_code, error,
              llm, response, analysis, vp, cg>>

parseVars == <<p_in, p_out>>

vars == <<pipeVars, parseVars>>

NoAnalysis == [kind |-> "none", has |-> {}, long_form |-> <<>>, short_form |-> <<>>]

NoLoop == [i |-> 0, segment_files |-> <<>>]

\* One entry of calls.
Call(op, ss, t, src, out, ok) == [op |-> op, ss |-> ss, t |-> t, src |-> src, out |-> out, ok |-> ok]

Invoke(c) == calls' = Append(calls, c)

\* A variant of the handler that reports the error and exits with status 0.
FailExitsZero(e) ==
  /\ pc' = "exit"
  /\ exit_code' = 0
  /\ error' = e

\* An exception that reaches the handler at the bottom of main.py: exit status 1.
Fail(e) ==
  /\ pc' = "exit"
  /\ exit_code' = 1
  /\ error' = e

Goto(label) ==
  /\ pc' = label
  /\ UNCHANGED <<exit_code, error>>

Config == <<args, input_exists, llm_config, environ>>

\* ------------------------------------------------------------ LLM replies
JSON_TAG == Str(<<"j", "s", "o", "n">>)

\* tag is the language tag after the opening fence, <<>> for none.
Fenced(tag, text) == FENCE \o tag \o NL \o text \o NL \o FENCE

\* What an LLM may answer the analysis prompt with: any JSON value bare, in a
\* plain fence or in a json fence; a fence that is never closed; prose.
Replies ==
  {JsonText(v) : v \in JsonValues}
    \cup {Fenced(<<>>, JsonText(v)) : v \in JsonValues}
    \cup {Fenced(JSON_TAG, JsonText(v)) : v \in JsonValues}
    \cup {FENCE \o NL \o JsonText(Dict({}, <<>>, <<>>)), Str(<<"s", "o">>)}

\* ------------------------------------------------------------------ main.py
Init ==
  /\ args \in [skip_transcription : BOOLEAN, skip_video : BOOLEAN, skip_text : BOOLEAN]
  /\ input_exists \in BOOLEAN
  /\ llm_config \in [provider : ProviderNames]
  /\ environ \in EnvValues
  /\ files \in {NoFiles, Write(NoFiles, TRANSCRIPT, Content("transcript"))}
  /\ calls = <<>>
  /\ pc = "main"
  /\ exit_code = None
  /\ error = None
  /\ llm = [analyzer |-> None, generator |-> None]
  /\ response = <<>>
  /\ analysis = NoAnalysis
  /\ vp = NoLoop
  /\ cg = 0
  /\ p_in = <<>>
  /\ p_out = <<>>

\* main.py 64-77: the input file must exist; sys.exit(1) otherwise.
ValidateInput ==
  /\ pc = "main"
  /\ IF input_exists THEN Goto("step1") ELSE Fail("Input file not found")
  /\ UNCHANGED <<Config, files, calls, llm, response, analysis, vp, cg, parseVars>>

\* A variant of the test that looks at the flag alone.
SkipsTranscriptionOnFlagAlone(a, f) == a.skip_transcription

\* main.py 88: `args.skip_transcription and transcript_path.exists()`.
SkipsTranscription(a, f) == a.skip_transcription /\ TRANSCRIPT \in DOMAIN f

\* main.py 86-97 and transcriber.py 13-59: skip, or build the Transcriber and
\* enter transcribe up to the temporary directory.
Step1 ==
  /\ pc = "step1"
  /\ \/ /\ SkipsTranscription(args, files)
        /\ Goto("step2")
     \/ /\ ~SkipsTranscription(args, files)
        /\ \E installed \in BOOLEAN, suffix \in {".wav", ".mp4"} :
             IF ~installed THEN Fail("FileNotFoundError")
             ELSE IF suffix # ".wav" THEN Goto("t_convert") ELSE Goto("t_whisper")
  /\ UNCHANGED <<Config, files, calls, llm, response, analysis, vp, cg, parseVars>>

\* transcriber.py 63-77: ffmpeg converts the input to a 16 kHz mono WAV.
Convert ==
  /\ pc = "t_convert"
  /\ \E ok \in BOOLEAN :
       /\ Invoke(Call("convert", 0, 0, <<>>, WAV_FILE, ok))
       /\ IF ok THEN /\ files' = Write(files, WAV_FILE, Content("wav"))
                     /\ Goto("t_whisper")
          ELSE /\ files' = RemoveTemp(files)
               /\ Fail("CalledProcessError")
  /\ UNCHANGED <<Config, llm, response, analysis, vp, cg, parseVars>>

\* transcriber.py 88-119: whisper-cli runs; it may fail, or exit 0 without output.
Whisper ==
  /\ pc = "t_whisper"
  /\ \E outcome \in {"ok", "failed", "no output"} :
       /\ Invoke(Call("whisper", 0, 0, <<>>, WHISPER_OUTPUT, outcome # "failed"))
       /\ CASE outcome = "ok" ->
                 /\ files' = Write(files, WHISPER_OUTPUT, Content("whisper json"))
                 /\ Goto("t_save")
            [] outcome = "failed" ->
                 /\ files' = RemoveTemp(files)
                 /\ Fail("CalledProcessError")
            [] OTHER ->
                 /\ files' = RemoveTemp(files)
                 /\ Fail("RuntimeError")
  /\ UNCHANGED <<Config, llm, response, analysis, vp, cg, parseVars>>

\* transcriber.py 121-149: the recognizer output is read, which fails when it is
\* not JSON; the transcript is written and the temporary directory left.
SaveTranscript ==
  /\ pc = "t_save"
  /\ \E readable \in BOOLEAN :
       IF readable
       THEN /\ files' = RemoveTemp(Write(files, TRANSCRIPT, Content("transcript")))
            /\ Goto("step2")
       ELSE /\ files' = RemoveTemp(files)
            /\ Fail("JSONDecodeError")
  /\ UNCHANGED <<Config, calls, llm, response, analysis, vp, cg, parseVars>>

\* main.py 102 and analyzer.py 12-20: Analyzer(config["llm"]).
Step2 ==
  /\ pc = "step2"
  /\ LET got == get_llm_provider(llm_config, environ)
     IN IF got.ok THEN /\ llm' = [llm EXCEPT !.analyzer = got.value]
                       /\ Goto("analyze")
        ELSE /\ Fail(got.error)
             /\ UNCHANGED llm
  /\ UNCHANGED <<Config, files, calls, response, analysis, vp, cg, parseVars>>

\* analyzer.py 37-49: the prompt is sent; the call may fail or return any reply.
Analyze ==
  /\ pc = "analyze"
  /\ \/ /\ Invoke(Call("llm", 0, 0, <<>>, ANALYSIS, FALSE))
        /\ Fail("LLM request failed")
        /\ UNCHANGED response
     \/ /\ Invoke(Call("llm", 0, 0, <<>>, ANALYSIS, TRUE))
        /\ response' \in Replies
        /\ Goto("parse")
  /\ UNCHANGED <<Config, files, llm, analysis, vp, cg, parseVars>>

\* analyzer.py 52-54: the reply is parsed.
Parse ==
  /\ pc = "parse"
  /\ LET got == _parse_response(response)
     IN IF got.ok THEN /\ analysis' = got.value
                       /\ Goto("save")
        ELSE /\ Fail("ValueError: Failed to parse LLM response as JSON")
             /\ UNCHANGED analysis
  /\ UNCHANGED <<Config, files, calls, llm, response, vp, cg, parseVars>>

\* A variant of main that goes on to the video stage without saving the analysis.
SaveAnalysisSkipped ==
  /\ pc = "save"
  /\ Goto("step3")
  /\ UNCHANGED <<Config, files, calls, llm, response, analysis, vp, cg, parseVars>>

\* main.py 104-106 and analyzer.py 92-97: json.dump writes any JSON value.
SaveAnalysis ==
  /\ pc = "save"
  /\ files' = Write(files, ANALYSIS, [kind |-> "json", value |-> analysis])
  /\ Goto("step3")
  /\ UNCHANGED <<Config, calls, llm, response, analysis, vp, cg, parseVars>>

\* main.py 109-119.
Step3 ==
  /\ pc = "step3"
  /\ IF args.skip_video THEN Goto("step4") ELSE Goto("v_long")
  /\ UNCHANGED <<Config, files, calls, llm, response, analysis, vp, cg, parseVars>>

\* ------------------------------------------------------ video_processor.py
\* `key in analysis` (lines 38, 49): a key of a dict, an element of a list (the
\* list here is empty), a TypeError on a number.
InAnalysis(key, a) ==
  CASE a.kind = "dict" -> Returned(key \in a.has)
    [] a.kind = "list" -> Returned(FALSE)
    [] OTHER -> Raised("TypeError")

\* A variant that limits the output to end, not to end - start.
CutCallUpToEnd(start, end, out, ok) == Call("cut", start, end, <<>>, out, ok)

\* _cut_segment 125-142: seek to start, limit to end - start.
CutCall(start, end, out, ok) == Call("cut", start, end - start, <<>>, out, ok)

\* _process_short_form 97-114: the same trim with the vertical crop and scale.
ShortCall(clip, out, ok) == Call("short", clip.start, clip.end - clip.start, <<>>, out, ok)

\* What ffmpeg writes for a trim: the range it was told to keep.
Clip(c) == [kind |-> c.op, ss |-> c.ss, t |-> c.t]

\* A variant without the `if not segments: return` of line 73.
LongFormPlanNoEmptyCheck(segments) == IF Len(segments) = 1 THEN "cut" ELSE "concat"

\* _process_long_form 73-86: which way a list of segments is handled.
LongFormPlan(segments) ==
  IF Len(segments) = 0 THEN "return"
  ELSE IF Len(segments) = 1 THEN "cut" ELSE "concat"

\* A variant that lists the segment files last to first.
ConcatListReversed(segment_files) ==
  [i \in 1..Len(segment_files) |-> segment_files[Len(segment_files) - i + 1]]

\* _concatenate_segments 171-173: the lines of concat.txt.
ConcatList(segment_files) == segment_files

\* process 37-46 with _process_long_form.
ProcessLongForm ==
  /\ pc = "v_long"
  /\ LET in == InAnalysis("long_form", analysis)
         segments == analysis.long_form
     IN IF ~in.ok
        THEN Fail(in.error) /\ UNCHANGED <<files, calls, vp>>
        ELSE IF ~in.value
        THEN Goto("v_short") /\ UNCHANGED <<files, calls, vp>>
        ELSE CASE LongFormPlan(segments) = "return" ->
                    Goto("v_short") /\ UNCHANGED <<files, calls, vp>>
               [] LongFormPlan(segments) = "cut" ->
                    \E ok \in BOOLEAN :
                      LET c == CutCall(segments[1].start, segments[1].end, LONG_FORM, ok)
                      IN /\ Invoke(c)
                         /\ UNCHANGED vp
                         /\ IF ok THEN files' = Write(files, LONG_FORM, Clip(c)) /\ Goto("v_short")
                            ELSE Fail("CalledProcessError") /\ UNCHANGED files
               [] OTHER ->
                    /\ vp' = [i |-> 0, segment_files |-> <<>>]
                    /\ IF Len(segments) = 0 THEN Goto("concat_list") ELSE Goto("concat_cut")
                    /\ UNCHANGED <<files, calls>>
  /\ UNCHANGED <<Config, llm, response, analysis, cg, parseVars>>

\* _concatenate_segments 159-167: segment i is cut into its temporary file.
ConcatCut ==
  /\ pc = "concat_cut"
  /\ LET segment == analysis.long_form[vp.i + 1]
         segment_path == SegmentName(vp.i)
     IN \E ok \in BOOLEAN :
          LET c == CutCall(segment.start, segment.end, segment_path, ok)
          IN /\ Invoke(c)
             /\ IF ok
                THEN /\ files' = Write(files, segment_path, Clip(c))
                     /\ vp' = [i |-> vp.i + 1, segment_files |-> Append(vp.segment_files, segment_path)]
                     /\ IF vp.i + 1 = Len(analysis.long_form)
                        THEN Goto("concat_list") ELSE Goto("concat_cut")
                ELSE /\ files' = RemoveTemp(files)
                     /\ vp' = NoLoop
                     /\ Fail("CalledProcessError")
  /\ UNCHANGED <<Config, llm, response, analysis, cg, parseVars>>

\* _concatenate_segments 170-173: concat.txt is written.
WriteConcatFile ==
  /\ pc = "concat_list"
  /\ files' = Write(files, CONCAT_FILE, [kind |-> "manifest", lines |-> ConcatList(vp.segment_files)])
  /\ Goto("concat_run")
  /\ UNCHANGED <<Config, calls, llm, response, analysis, vp, cg, parseVars>>

\* _concatenate_segments 176-185: ffmpeg joins what concat.txt lists, in its order.
ConcatRun ==
  /\ pc = "concat_run"
  /\ LET lines == files[CONCAT_FILE].lines
     IN \E ok \in BOOLEAN :
          /\ Invoke(Call("concat", 0, 0, lines, LONG_FORM, ok))
          /\ vp' = NoLoop
          /\ IF ok
             THEN /\ files' = RemoveTemp(Write(files, LONG_FORM,
                                 [kind |-> "concat", parts |-> [k \in 1..Len(lines) |-> files[lines[k]]]]))
                  /\ Goto("v_short")
             ELSE /\ files' = RemoveTemp(files)
                  /\ Fail("CalledProcessError")
  /\ UNCHANGED <<Config, llm, response, analysis, cg, parseVars>>

\* process 49-53: the short-form loop is entered, counting from 1.
ShortFormStart ==
  /\ pc = "v_short"
  /\ LET in == InAnalysis("short_form", analysis)
     IN IF ~in.ok
        THEN Fail(in.error) /\ UNCHANGED vp
        ELSE IF ~in.value
        THEN Goto("step4") /\ UNCHANGED vp
        ELSE /\ vp' = [i |-> 1, segment_files |-> <<>>]
             /\ IF Len(analysis.short_form) = 0 THEN Goto("step4") ELSE Goto("short_clip")
  /\ UNCHANGED <<Config, files, calls, llm, response, analysis, cg, parseVars>>

\* A variant of the loop that passes over a clip the transcoder failed on and
\* goes on with the next.
ShortClipIsolated ==
  /\ pc = "short_clip"
  /\ LET clip == analysis.short_form[vp.i]
         clip_output == ShortName(vp.i)
     IN \E ok \in BOOLEAN :
          LET c == ShortCall(clip, clip_output, ok)
          IN /\ Invoke(c)
             /\ files' = IF ok THEN Write(files, clip_output, Clip(c)) ELSE files
             /\ vp' = [vp EXCEPT !.i = vp.i + 1]
             /\ IF vp.i = Len(analysis.short_form) THEN Goto("step4") ELSE Goto("short_clip")
  /\ UNCHANGED <<Config, llm, response, analysis, cg, parseVars>>

\* process 54-61 with _process_short_form: clip i is written to its numbered file.
ShortClip ==
  /\ pc = "short_clip"
  /\ LET clip == analysis.short_form[vp.i]
         clip_output == ShortName(vp.i)
     IN \E ok \in BOOLEAN :
          LET c == ShortCall(clip, clip_output, ok)
          IN /\ Invoke(c)
             /\ IF ok
                THEN /\ files' = Write(files, clip_output, Clip(c))
                     /\ vp' = [vp EXCEPT !.i = vp.i + 1]
                     /\ IF vp.i = Len(analysis.short_form) THEN Goto("step4") ELSE Goto("short_clip")
                ELSE /\ Fail("CalledProcessError")
                     /\ UNCHANGED <<files, vp>>
  /\ UNCHANGED <<Config, llm, response, analysis, cg, parseVars>>

\* ---------------------------------------------------- content_generator.py
\* main.py 122-132, ContentGenerator.__init__ and generate_all 45-48.
Step4 ==
  /\ pc = "step4"
  /\ IF args.skip_text
     THEN Goto("done") /\ UNCHANGED <<llm, cg>>
     ELSE LET got == get_llm_provider(llm_config, environ)
          IN IF got.ok THEN /\ llm' = [llm EXCEPT !.generator = got.value]
                            /\ cg' = 1
                            /\ Goto("text")
             ELSE Fail(got.error) /\ UNCHANGED <<llm, cg>>
  /\ UNCHANGED <<Config, files, calls, response, analysis, vp, parseVars>>

\* generate_all 50-62 with generate: one content type.  The template may be
\* missing, analysis.get needs a dict, the LLM call or the write may fail.
GenerateOne ==
  /\ pc = "text"
  /\ LET content_type == CONTENT_TYPES[cg]
     IN \E outcome \in {"ok", "no template", "llm failed", "write failed"} :
          CASE outcome = "no template" ->
                 Fail("FileNotFoundError") /\ UNCHANGED <<files, calls, cg>>
            [] outcome # "no template" /\ analysis.kind # "dict" ->
                 Fail("AttributeError") /\ UNCHANGED <<files, calls, cg>>
            [] outcome = "llm failed" /\ analysis.kind = "dict" ->
                 /\ Invoke(Call("llm", 0, 0, <<>>, File(content_type), FALSE))
                 /\ Fail("LLM request failed")
                 /\ UNCHANGED <<files, cg>>
            [] outcome = "write failed" /\ analysis.kind = "dict" ->
                 /\ Invoke(Call("llm", 0, 0, <<>>, File(content_type), TRUE))
                 /\ Fail("OSError")
                 /\ UNCHANGED <<files, cg>>
            [] OTHER ->
                 /\ Invoke(Call("llm", 0, 0, <<>>, File(content_type), TRUE))
                 /\ files' = Write(files, File(content_type), Content("text"))
                 /\ cg' = cg + 1
                 /\ IF cg = Len(CONTENT_TYPES) THEN Goto("done") ELSE Goto("text")
  /\ UNCHANGED <<Config, llm, response, analysis, vp, parseVars>>

\* main.py 134-137: the banner; the interpreter then exits with status 0.
Done ==
  /\ pc = "done"
  /\ pc' = "exit"
  /\ exit_code' = 0
  /\ UNCHANGED <<error, Config, files, calls, llm, response, analysis, vp, cg, parseVars>>

Next ==
  \/ ValidateInput
  \/ Step1
  \/ Convert
  \/ Whisper
  \/ SaveTranscript
  \/ Step2
  \/ Analyze
  \/ Parse
  \/ SaveAnalysis
  \/ Step3
  \/ ProcessLongForm
  \/ ConcatCut
  \/ WriteConcatFile
  \/ ConcatRun
  \/ ShortFormStart
  \/ ShortClip
  \/ Step4
  \/ GenerateOne
  \/ Done

Spec == Init /\ [][Next]_vars

\* ------------------------------------------- VideoProcessor.process alone
\* process(input_path, analysis, output_dir) entered with any analysis.
VideoInit ==
  /\ args = [skip_transcription |-> FALSE, skip_video |-> FALSE, skip_text |-> FALSE]
  /\ input_exists = TRUE
  /\ llm_config = [provider |-> "ollama"]
  /\ environ = None
  /\ \/ IsAnalysisOver(analysis, Ranges, MaxSegs)
     \/ analysis \in {JsonList, JsonNumber}
  /\ files = NoFiles
  /\ calls = <<>>
  /\ pc = "v_long"
  /\ exit_code = None
  /\ error = None
  /\ llm = [analyzer |-> None, generator |-> None]
  /\ response = <<>>
  /\ vp = NoLoop
  /\ cg = 0
  /\ p_in = <<>>
  /\ p_out = <<>>

VideoNext ==
  \/ ProcessLongForm
  \/ ConcatCut
  \/ WriteConcatFile
  \/ ConcatRun
  \/ ShortFormStart
  \/ ShortClip

VideoSpec == VideoInit /\ [][VideoNext]_vars

\* ------------------------------------------------ _parse_response alone
\* The payloads a reply carries: JSON texts, one with blank space around it,
\* and one text that is not JSON.
Payloads ==
  {JsonText(Dict({}, <<>>, <<>>)),
   JsonText(Dict({"long_form"}, <<[start |-> 0, end |-> MaxTime]>>, <<>>)),
   Str(<<"space">>) \o JsonText(JsonList) \o Str(<<"space">>),
   Str(<<"s", "o">>)}

\* Language tags: json, JSON, jsonc, py.
Tags == {JSON_TAG, Str(<<"J", "S", "O", "N">>), Str(<<"j", "s", "o", "n", "c">>), Str(<<"p", "y">>)}

\* What may precede the first fence and what may follow its block.
Befores == {<<>>, Str(<<"s", "o", "newline">>)}

Afters ==
  {<<>>,
   NL \o Fenced(<<>>, JsonText(JsonNumber)),
   NL \o Fenced(JSON_TAG, JsonText(JsonNumber))}

Forms == {"bare", "fenced", "tagged", "untagged first", "tagged first"}

\* The reply of each form built from the parts p.
Reply(form, p) ==
  CASE form = "bare" -> p.payload
    [] form = "fenced" -> Fenced(<<>>, p.payload)
    [] form = "tagged" -> Fenced(p.tag, p.payload)
    [] form = "untagged first" -> p.before \o Fenced(<<>>, p.payload) \o p.after
    [] OTHER -> p.before \o Fenced(p.tag, p.payload) \o p.after

NoResults == [f \in {} |-> 0]

ParseInit ==
  /\ p_in \in [payload : Payloads, tag : Tags, before : Befores, after : Afters]
  /\ p_out = NoResults
  /\ args = [skip_transcription |-> FALSE, skip_video |-> FALSE, skip_text |-> FALSE]
  /\ input_exists = TRUE
  /\ llm_config = [provider |-> "ollama"]
  /\ environ = None
  /\ analysis = NoAnalysis
  /\ files = NoFiles
  /\ calls = <<>>
  /\ pc = "parse only"
  /\ exit_code = None
  /\ error = None
  /\ llm = [analyzer |-> None, generator |-> None]
  /\ response = <<>>
  /\ vp = NoLoop
  /\ cg = 0

\* One reply is handed to _parse_response; json_str is what lines 77-86 extract.
ParseReply ==
  \E form \in Forms \ DOMAIN p_out :
    LET reply == Reply(form, p_in)
    IN /\ p_out' = [f \in DOMAIN p_out \cup {form} |->
                      IF f = form
                      THEN [response |-> reply,
                            json_str |-> ExtractJsonStr(reply),
                            result |-> _parse_response(reply)]
                      ELSE p_out[f]]
       /\ UNCHANGED <<p_in, pipeVars>>

ParseNext == ParseReply

ParseSpec == ParseInit /\ [][ParseNext]_vars

\* ---------------------------------------------- _format_transcript alone
\* A transcript handed to _format_transcript alone holds at most MaxListed segments.
MaxListed == 2

\* Seconds are kept in milliseconds: transcriber.py 140-141 divides the
\* recognizer's millisecond offsets by 1000.0.
Seconds(h, m, s, ms) == ((h * 60 + m) * 60 + s) * 1000 + ms

\* 0 s, 59.999 s, 59 min 59 s, 1 h, 99 h 59 min 59 s, 100 h.
SampleSeconds ==
  {Seconds(0, 0, 0, 0), Seconds(0, 0, 59, 999), Seconds(0, 59, 59, 0), Seconds(1, 0, 0, 0),
   Seconds(99, 59, 59, 0), Seconds(100, 0, 0, 0)}

\* Segment texts: one word, and two words with a line break between them.
SampleTexts == {Str(<<"a">>), Str(<<"a", "newline", "b">>)}

Segments ==
  {seg \in [start : SampleSeconds, end : SampleSeconds, text : SampleTexts] : seg.start <= seg.end}

DIGITS == <<"0", "1", "2", "3", "4", "5", "6", "7", "8", "9">>

RECURSIVE Decimal(_)
\* str(n) for n >= 0: the decimal digits, most significant first.
Decimal(n) ==
  IF n < 10 THEN <<Ch(DIGITS[n + 1])>> ELSE Decimal(n \div 10) \o <<Ch(DIGITS[(n % 10) + 1])>>

\* f"{n:02d}" for n >= 0: at least two digits, padded with zeros on the left.
Format02d(n) == IF Len(Decimal(n)) < 2 THEN <<Ch("0")>> \o Decimal(n) ELSE Decimal(n)

\* analyzer.py 65-70, on seconds kept in milliseconds.
_format_time(seconds) ==
  LET hours == seconds \div 3600000
      minutes == (seconds % 3600000) \div 60000
      secs == (seconds % 60000) \div 1000
  IN Format02d(hours) \o Str(<<":">>) \o Format02d(minutes) \o Str(<<":">>) \o Format02d(secs)

\* analyzer.py 60-62: the line of one segment.
FormatLine(segment) ==
  Str(<<"[">>) \o _format_time(segment.start) \o Str(<<"space", "-", "space">>)
    \o _format_time(segment.end) \o Str(<<"]", "space">>) \o segment.text

RECURSIVE Join(_, _)
\* sep.join(lines)
Join(sep, lines) ==
  IF Len(lines) = 0 THEN <<>>
  ELSE IF Len(lines) = 1 THEN lines[1]
  ELSE lines[1] \o sep \o Join(sep, Tail(lines))

\* analyzer.py 56-63.
_format_transcript(transcript) ==
  Join(NL, [i \in 1..Len(transcript.segments) |-> FormatLine(transcript.segments[i])])

FormatInit ==
  /\ \E n \in 0..MaxListed : p_in \in [segments : ListsOfLen(Segments, n)]
  /\ p_out = <<>>
  /\ args = [skip_transcription |-> FALSE, skip_video |-> FALSE, skip_text |-> FALSE]
  /\ input_exists = TRUE
  /\ llm_config = [provider |-> "ollama"]
  /\ environ = None
  /\ analysis = NoAnalysis
  /\ files = NoFiles
  /\ calls = <<>>
  /\ pc = "format only"
  /\ exit_code = None
  /\ error = None
  /\ llm = [analyzer |-> None, generator |-> None]
  /\ response = <<>>
  /\ vp = NoLoop
  /\ cg = 0

\* The transcript is handed to _format_transcript.
FormatTranscript ==
  /\ pc = "format only"
  /\ p_out' = _format_transcript(p_in)
  /\ pc' = "formatted"
  /\ UNCHANGED <<p_in, Config, files, calls, exit_code, error, llm, response, analysis, vp, cg>>

FormatNext == FormatTranscript

FormatSpec == FormatInit /\ [][FormatNext]_vars

\* ================================================================ claims
IsShortFile(f) == f.name = "videos/shorts/short"

IsSegmentFile(f) == f.name = "tmp/segment"

HasField(key) == analysis.kind = "dict" /\ key \in analysis.has

\* The trim of range r, as a file holds it.
Trim(kind, r) == [kind |-> kind, ss |-> r.start, t |-> r.end - r.start]

\* C1: a range whose end does not exceed its start fails its video operation:
\* no trim with a zero or negative duration is ever reported as done.
C1_NonPositiveRangeFails ==
  \A k \in DOMAIN calls :
    (calls[k].op \in {"cut", "short"} /\ calls[k].t <= 0) => ~calls[k].ok

\* C2: with K short-form entries and every invocation succeeding, process
\* leaves exactly the files numbered 1..K, file i holding the trim of entry i
\* of the list, after exactly K short-clip invocations; while the loop runs, the
\* files written so far are those of the entries before the current one.
C2_ShortClipsNumbered ==
  LET short_form == analysis.short_form
      written == {f \in DOMAIN files : IsShortFile(f)}
      numbered(n) == {[name |-> "videos/shorts/short", n |-> i] : i \in 1..n}
      done == IF pc = "step4" THEN Len(short_form) ELSE vp.i - 1
  IN (HasField("short_form") /\ pc \in {"short_clip", "step4"}) =>
       /\ written = numbered(done)
       /\ \A i \in 1..done :
            files[[name |-> "videos/shorts/short", n |-> i]] = Trim("short", short_form[i])
       /\ Cardinality({k \in DOMAIN calls : calls[k].op = "short"}) = done

\* C2 witness: two clips, the second starting before the first and overlapping
\* it, both written.
C2_Witness ==
  /\ HasField("short_form")
  /\ pc = "step4"
  /\ Len(analysis.short_form) = 2
  /\ analysis.short_form[2].start < analysis.short_form[1].start
  /\ analysis.short_form[2].end > analysis.short_form[1].start
  /\ Cardinality({f \in DOMAIN files : IsShortFile(f)}) = 2

\* C3: with K >= 2 long-form ranges, the concat invocation comes after exactly
\* K successful cuts, cut i being range i of the list into temporary file i;
\* it is given the temporary files in the order of the list, and the output
\* holds the K trims in that order.
C3_ConcatKeepsListedOrder ==
  LET long_form == analysis.long_form
      K == Len(long_form)
  IN (HasField("long_form") /\ K >= 2) =>
       /\ \A k \in DOMAIN calls : calls[k].op = "concat" =>
            /\ k = K + 1
            /\ \A i \in 1..K :
                 /\ calls[i].op = "cut" /\ calls[i].ok
                 /\ calls[i].ss = long_form[i].start
                 /\ calls[i].t = long_form[i].end - long_form[i].start
                 /\ calls[i].out = [name |-> "tmp/segment", n |-> i - 1]
            /\ calls[k].src = [i \in 1..K |-> [name |-> "tmp/segment", n |-> i - 1]]
       /\ LONG_FORM \in DOMAIN files =>
            files[LONG_FORM] = [kind |-> "concat", parts |-> [i \in 1..K |-> Trim("cut", long_form[i])]]

\* C3 witness: two ranges, the second starting before the first and
\* overlapping it, concatenated.
C3_Witness ==
  /\ HasField("long_form")
  /\ Len(analysis.long_form) = 2
  /\ analysis.long_form[2].start < analysis.long_form[1].start
  /\ analysis.long_form[2].end > analysis.long_form[1].start
  /\ LONG_FORM \in DOMAIN files
  /\ \E k \in DOMAIN calls : calls[k].op = "concat" /\ calls[k].ok

\* C4: with long_form present and empty, long-form processing invokes the
\* transcoder for no cut and no concatenation, writes no long-form file, raises
\* nothing, and control passes to the short-form part of process.
C4_EmptyLongFormIsNoOp ==
  (HasField("long_form") /\ analysis.long_form = <<>>) =>
    /\ LONG_FORM \notin DOMAIN files
    /\ \A f \in DOMAIN files : ~IsSegmentFile(f) /\ f # CONCAT_FILE
    /\ \A k \in DOMAIN calls : calls[k].op \notin {"cut", "concat"}
    /\ pc \notin {"concat_cut", "concat_list", "concat_run"}
    /\ error # None => (calls # <<>> /\ calls[Len(calls)].op = "short")

\* C4 witness: the empty long-form list was passed over and a short clip written.
C4_Witness ==
  /\ HasField("long_form")
  /\ analysis.long_form = <<>>
  /\ pc = "step4"
  /\ error = None
  /\ \E f \in DOMAIN files : IsShortFile(f)

\* C5: a structured payload parses to the same result bare, in a fence without
\* a language tag, and in a fence with a language tag, whatever the tag.
C5_FencedParsesAsBare ==
  \A f \in DOMAIN p_out, g \in DOMAIN p_out :
    ({f, g} \subseteq {"bare", "fenced", "tagged"} /\ json_loads(Strip(p_in.payload)).ok) =>
      p_out[f].result = p_out[g].result

\* C6: from a reply with fenced blocks the content of the first block is
\* extracted, tagged or not and whatever follows it; from a reply without a
\* fence, the whole reply trimmed.
C6_FirstBlockExtracted ==
  \A f \in DOMAIN p_out :
    p_out[f].json_str =
      IF f = "bare" THEN Returned(Strip(p_out[f].response)) ELSE Returned(Strip(p_in.payload))

\* The reply main received parses to a JSON object.
ReplyIsRecord ==
  LET got == _parse_response(response)
  IN got.ok /\ got.value.kind = "dict"

\* C7: a reply that does not parse as a JSON object ends the run at the
\* analysis stage: no analysis is kept or saved and nothing is invoked after
\* the analysis request.
C7_MalformedReplyIsFatal ==
  (response # <<>> /\ pc # "parse" /\ ~ReplyIsRecord) =>
    /\ pc = "exit" /\ exit_code = 1
    /\ analysis = NoAnalysis
    /\ ANALYSIS \notin DOMAIN files
    /\ calls[Len(calls)].out = ANALYSIS

\* C8: with a cloud provider selected and its credential unset or empty, no
\* provider is ever constructed and no LLM completion is ever requested; the
\* run never gets past the construction of the Analyzer.
C8_MissingCredentialNoCall ==
  (Lower(llm_config.provider) \in {"openai", "anthropic"} /\ environ \in {None, ""}) =>
    /\ llm = [analyzer |-> None, generator |-> None]
    /\ \A k \in DOMAIN calls : calls[k].op # "llm"
    /\ pc \in {"main", "step1", "t_convert", "t_whisper", "t_save", "step2", "exit"}
    /\ pc = "exit" => exit_code = 1

\* C8 witness: the empty credential was refused by get_llm_provider.
C8_Witness ==
  /\ Lower(llm_config.provider) \in {"openai", "anthropic"}
  /\ environ = ""
  /\ pc = "exit"
  /\ error = "ValueError: API key not found"

\* C9: when a missing credential or an unknown provider is reported, no stage
\* has run: no conversion and no recognizer has been invoked.
C9_ConfigErrorsBeforeAnyStage ==
  error \in {"Input file not found", "ValueError: API key not found", "ValueError: Unknown LLM provider"}
    => calls = <<>>

\* C10: when generate_all ends, by failure or not, every content type has been
\* attempted.
C10_TypesIndependent ==
  (pc = "exit" /\ llm.generator # None /\ analysis.kind = "dict") => cg >= Len(CONTENT_TYPES)

\* Control is inside one of the two `with tempfile.TemporaryDirectory()` blocks.
InTemporaryDirectory ==
  pc \in {"t_convert", "t_whisper", "t_save", "concat_cut", "concat_list", "concat_run"}

IsTemporary(f) ==
  f.name \in {"tmp/input.wav", "tmp/whisper_output.json", "tmp/segment", "tmp/concat.txt"}

\* C11: once transcribe or _concatenate_segments has returned or raised, none
\* of its temporary files exists: the converted audio, the recognizer output,
\* the per-segment cuts and the concatenation manifest are gone on every exit,
\* whether the conversion, the recognizer, a segment cut or the concatenation
\* failed or all succeeded.
C11_TemporaryFilesRemoved ==
  ~InTemporaryDirectory => \A f \in DOMAIN files : ~IsTemporary(f)

\* C11 witness: transcription converted and recognized and returned; later two
\* segments were cut and the concatenation failed.
C11_Witness ==
  /\ pc = "exit"
  /\ error = "CalledProcessError"
  /\ \E k \in DOMAIN calls : calls[k].op = "convert" /\ calls[k].ok
  /\ \E k \in DOMAIN calls : calls[k].op = "whisper" /\ calls[k].ok
  /\ \E k \in DOMAIN calls : calls[k].op = "cut" /\ calls[k].ok /\ IsSegmentFile(calls[k].out)
  /\ calls[Len(calls)].op = "concat" /\ ~calls[Len(calls)].ok
  /\ TRANSCRIPT \in DOMAIN files

RECURSIVE Lines(_)
\* The lines of a text, as str.splitlines gives them.
Lines(s) ==
  IF s = <<>> THEN <<>>
  ELSE LET k == Find(s, NL, 1)
       IN IF k = 0 THEN <<s>> ELSE <<Slice(s, 1, k)>> \o Lines(Slice(s, k + 1, Len(s) + 1))

IsDigit(c) == \E d \in 1..10 : c = Ch(DIGITS[d])

DigitValue(c) == (CHOOSE d \in 1..10 : c = Ch(DIGITS[d])) - 1

\* line holds, from position k, exactly the two digits of n.
TwoDigitField(line, k, n) ==
  /\ IsDigit(line[k]) /\ IsDigit(line[k + 1])
  /\ DigitValue(line[k]) * 10 + DigitValue(line[k + 1]) = n

\* line holds, from position k, HH:MM:SS for the time t in milliseconds.
TimeField(line, k, t) ==
  LET s == t \div 1000
  IN /\ TwoDigitField(line, k, s \div 3600)
     /\ line[k + 2] = Ch(":")
     /\ TwoDigitField(line, k + 3, (s % 3600) \div 60)
     /\ line[k + 5] = Ch(":")
     /\ TwoDigitField(line, k + 6, s % 60)

\* C12: the listing of a transcript with N segments has exactly N lines, in
\* segment order; line i begins with the range of segment i, both times as
\* HH:MM:SS with two digits per field, hours = floor(s/3600), minutes =
\* floor((s mod 3600)/60), seconds = floor(s mod 60).
C12_ListingHasOneLinePerSegment ==
  pc = "formatted" =>
    LET segments == p_in.segments
        lines == Lines(p_out)
    IN /\ Len(lines) = Len(segments)
       /\ \A i \in 1..Len(segments) :
            /\ Len(lines[i]) >= 21
            /\ lines[i][1] = Ch("[")
            /\ TimeField(lines[i], 2, segments[i].start)
            /\ SubSeq(lines[i], 10, 12) = Str(<<"space", "-", "space">>)
            /\ TimeField(lines[i], 13, segments[i].end)
            /\ lines[i][21] = Ch("]")

\* A stage has ended in an error: an exception was raised or an external call failed.
StageFailed == error # None \/ \E k \in DOMAIN calls : ~calls[k].ok

ExitedNonZero == pc = "exit" /\ exit_code # 0

\* Every stage that was not skipped has produced what it is there to produce.
StagesCompleted ==
  /\ ~StageFailed
  /\ TRANSCRIPT \in DOMAIN files
  /\ ~args.skip_transcription => \E k \in DOMAIN calls : calls[k].op = "whisper" /\ calls[k].ok
  /\ ANALYSIS \in DOMAIN files
  /\ \E k \in DOMAIN calls : calls[k].op = "llm" /\ calls[k].out = ANALYSIS /\ calls[k].ok
  /\ ~args.skip_video =>
       /\ analysis.kind # "number"
       /\ (HasField("long_form") /\ analysis.long_form # <<>>) => LONG_FORM \in DOMAIN files
       /\ HasField("short_form") =>
            \A i \in 1..Len(analysis.short_form) : [name |-> "videos/shorts/short", n |-> i] \in DOMAIN files
  /\ ~args.skip_text =>
       \A i \in 1..Len(CONTENT_TYPES) : [name |-> CONTENT_TYPES[i], n |-> 0] \in DOMAIN files

\* C13: a run in which a stage ended in a fatal error (the input is missing, the
\* credential is missing, the LLM reply does not parse, the recognizer or the
\* transcoder failed, or any other exception) ends with a non-zero exit status;
\* the banner and exit status 0 are reached only when every stage that was not
\* skipped has completed without error.
C13_FatalErrorExitsNonZero ==
  /\ StageFailed => ExitedNonZero
  /\ (~input_exists /\ pc # "main") => ExitedNonZero
  /\ (/\ Lower(llm_config.provider) \in {"openai", "anthropic"}
      /\ environ \in {None, ""}
      /\ pc \notin {"main", "step1", "t_convert", "t_whisper", "t_save", "step2"}) => ExitedNonZero
  /\ (response # <<>> /\ pc # "parse" /\ ~_parse_response(response).ok) => ExitedNonZero
  /\ (pc = "done" \/ (pc = "exit" /\ exit_code = 0)) => StagesCompleted

\* C13 witness: nothing was skipped, the long-form video was written and the
\* transcoder failed on a short clip; the run ended with status 1.
C13_Witness ==
  /\ args = [skip_transcription |-> FALSE, skip_video |-> FALSE, skip_text |-> FALSE]
  /\ LONG_FORM \in DOMAIN files
  /\ calls # <<>>
  /\ calls[Len(calls)].op = "short" /\ ~calls[Len(calls)].ok
  /\ pc = "exit"
  /\ exit_code = 1

\* C14: with exactly one long-form range, long-form processing makes exactly one
\* transcoder invocation: a trim that seeks to start and limits the output to
\* end - start, written straight to the long-form output; no temporary segment
\* file or manifest is ever written and no concatenation is run.
C14_SingleRangeIsOneTrim ==
  (HasField("long_form") /\ Len(analysis.long_form) = 1) =>
    LET r == analysis.long_form[1]
        long_calls == {k \in DOMAIN calls : calls[k].op \in {"cut", "concat"}}
    IN /\ pc \notin {"concat_cut", "concat_list", "concat_run"}
       /\ \A f \in DOMAIN files : ~IsSegmentFile(f) /\ f.name # "tmp/concat.txt"
       /\ pc = "v_long" => calls = <<>>
       /\ pc # "v_long" =>
            /\ long_calls = {1}
            /\ calls[1].op = "cut"
            /\ calls[1].ss = r.start
            /\ calls[1].t = r.end - r.start
            /\ calls[1].out = [name |-> "videos/long_form.mp4", n |-> 0]
            /\ calls[1].ok => files[[name |-> "videos/long_form.mp4", n |-> 0]] = Trim("cut", r)
            /\ ~calls[1].ok => [name |-> "videos/long_form.mp4", n |-> 0] \notin DOMAIN files

\* C14 witness: one range that starts after 0 was trimmed into the long-form
\* output and process went on to the short clips.
C14_Witness ==
  /\ HasField("long_form")
  /\ Len(analysis.long_form) = 1
  /\ analysis.long_form[1].start > 0
  /\ analysis.long_form[1].end > analysis.long_form[1].start
  /\ LONG_FORM \in DOMAIN files
  /\ pc \in {"short_clip", "step4"}

\* The stage an invocation belongs to: 1 transcription, 2 analysis, 3 video
\* processing, 4 text generation.
StageOf(c) ==
  CASE c.op \in {"convert", "whisper"} -> 1
    [] c.op = "llm" /\ c.out = [name |-> "analysis.json", n |-> 0] -> 2
    [] c.op \in {"cut", "concat", "short"} -> 3
    [] OTHER -> 4

\* The video stage has left everything the analysis asks for.
VideoComplete ==
  /\ (HasField("long_form") /\ analysis.long_form # <<>>) => LONG_FORM \in DOMAIN files
  /\ HasField("short_form") =>
       \A i \in 1..Len(analysis.short_form) : [name |-> "videos/shorts/short", n |-> i] \in DOMAIN files

\* C15: the invocations come one after another in the order transcription,
\* analysis, video processing, text generation, each only after every earlier
\* one has succeeded; the analysis request comes after the transcript exists;
\* the analysis file exists before video processing starts; the long-form output
\* is finished before the first short clip, clip i before clip i + 1; text
\* generation comes after the video stage, unless skipped, has finished.
C15_StagesInOrder ==
  /\ \A j \in DOMAIN calls : \A k \in 1..(j - 1) :
       StageOf(calls[k]) <= StageOf(calls[j]) /\ calls[k].ok
  /\ \A j \in DOMAIN calls : StageOf(calls[j]) >= 2 =>
       /\ TRANSCRIPT \in DOMAIN files
       /\ \A f \in DOMAIN files : f.name \notin {"tmp/input.wav", "tmp/whisper_output.json"}
  /\ (pc \in {"step3", "v_long", "concat_cut", "concat_list", "concat_run", "v_short", "short_clip",
              "step4", "text", "done"}
        \/ \E j \in DOMAIN calls : StageOf(calls[j]) >= 3) =>
       /\ [name |-> "analysis.json", n |-> 0] \in DOMAIN files
       /\ \E k \in DOMAIN calls : StageOf(calls[k]) = 2 /\ calls[k].ok
  /\ \A j \in DOMAIN calls : calls[j].op = "short" =>
       LET i == 1 + Cardinality({k \in 1..(j - 1) : calls[k].op = "short"})
       IN /\ calls[j].out = [name |-> "videos/shorts/short", n |-> i]
          /\ \A k \in (j + 1)..Len(calls) : calls[k].op \notin {"cut", "concat"}
          /\ (HasField("long_form") /\ analysis.long_form # <<>>) => LONG_FORM \in DOMAIN files
          /\ \A f \in DOMAIN files : ~IsSegmentFile(f) /\ f.name # "tmp/concat.txt"
          /\ \A h \in 1..(i - 1) : [name |-> "videos/shorts/short", n |-> h] \in DOMAIN files
  /\ (pc \in {"text", "done"} \/ \E j \in DOMAIN calls : StageOf(calls[j]) = 4) =>
       (~args.skip_video => VideoComplete)

\* C15 witness: a run with nothing skipped went through conversion, recognition,
\* analysis, a long-form concatenation, a short clip and the five texts.
C15_Witness ==
  /\ args = [skip_transcription |-> FALSE, skip_video |-> FALSE, skip_text |-> FALSE]
  /\ pc = "exit"
  /\ exit_code = 0
  /\ \E k \in DOMAIN calls : calls[k].op = "convert"
  /\ \E k \in DOMAIN calls : calls[k].op = "concat"
  /\ \E k \in DOMAIN calls : calls[k].op = "short"
  /\ Cardinality({k \in DOMAIN calls : StageOf(calls[k]) = 4}) = Len(CONTENT_TYPES)

IsTextFile(f) == \E i \in 1..Len(CONTENT_TYPES) : f.name = CONTENT_TYPES[i]

\* C16: a transcoder failure during video processing is the last thing the run
\* does: it ends with the error, no further clip is attempted and text
\* generation does not start.  After a failure on short clip i the files of
\* clips 1..i-1 and the long-form output are still there and no later clip has
\* a file; after a long-form failure no short clip was attempted.
C16_VideoAbortsOnFirstError ==
  \A j \in DOMAIN calls : (calls[j].op \in {"cut", "concat", "short"} /\ ~calls[j].ok) =>
    /\ j = Len(calls)
    /\ pc = "exit" /\ exit_code = 1 /\ error = "CalledProcessError"
    /\ llm.generator = None
    /\ \A f \in DOMAIN files : ~IsTextFile(f)
    /\ calls[j].op = "short" =>
         LET i == calls[j].out.n
         IN /\ \A h \in 1..(i - 1) :
                 /\ [name |-> "videos/shorts/short", n |-> h] \in DOMAIN files
                 /\ files[[name |-> "videos/shorts/short", n |-> h]] = Trim("short", analysis.short_form[h])
            /\ \A f \in DOMAIN files : IsShortFile(f) => f.n < i
            /\ Cardinality({k \in DOMAIN calls : calls[k].op = "short"}) = i
            /\ (HasField("long_form") /\ analysis.long_form # <<>>) => LONG_FORM \in DOMAIN files
    /\ calls[j].op \in {"cut", "concat"} =>
         /\ \A k \in DOMAIN calls : calls[k].op # "short"
         /\ \A f \in DOMAIN files : ~IsShortFile(f)

\* C16 witness: of three short clips the first was written and the transcoder
\* failed on the second; text generation was not skipped by its flag.
C16_Witness ==
  /\ ~args.skip_text
  /\ HasField("short_form")
  /\ Len(analysis.short_form) = 3
  /\ calls # <<>>
  /\ calls[Len(calls)].op = "short" /\ ~calls[Len(calls)].ok
  /\ calls[Len(calls)].out.n = 2
  /\ [name |-> "videos/shorts/short", n |-> 1] \in DOMAIN files
  /\ pc = "exit"

\* Control is in the transcriber, or the run ended there: the transcript file is
\* as it was when the run began.
InTranscription ==
  \/ pc \in {"t_convert", "t_whisper", "t_save"}
  \/ /\ pc = "exit"
     /\ error \in {"FileNotFoundError", "CalledProcessError", "RuntimeError", "JSONDecodeError"}
     /\ \A k \in DOMAIN calls : StageOf(calls[k]) = 1

\* Step 1 is behind and the transcriber was never entered.
TranscriptionSkipped ==
  /\ pc \notin {"main", "step1"}
  /\ ~InTranscription
  /\ error # "Input file not found"
  /\ \A k \in DOMAIN calls : StageOf(calls[k]) # 1

AnalysisRequests == {k \in DOMAIN calls : StageOf(calls[k]) = 2}

\* C17: each flag gates its own stage and no other.  Transcription is passed
\* over only with the flag set and a transcript in place, and with both it never
\* runs; with skip_video there is no cut, concatenation or short-clip invocation
\* and no video file, without it the clips asked for are made; with skip_text
\* there is no content-generation request and no text file, without it the
\* five texts are written; whatever the flags, a run that gets past step 2 has
\* made exactly one analysis request and holds the analysis file.
C17_FlagsGateTheirOwnStage ==
  /\ TranscriptionSkipped => (args.skip_transcription /\ [name |-> "transcript.json", n |-> 0] \in DOMAIN files)
  /\ InTranscription => ~(args.skip_transcription /\ [name |-> "transcript.json", n |-> 0] \in DOMAIN files)
  /\ args.skip_video =>
       /\ \A k \in DOMAIN calls : StageOf(calls[k]) # 3
       /\ \A f \in DOMAIN files : ~IsShortFile(f) /\ f # LONG_FORM
       /\ pc \notin {"v_long", "concat_cut", "concat_list", "concat_run", "v_short", "short_clip"}
  /\ (~args.skip_video /\ pc \in {"step4", "text", "done"}) => VideoComplete
  /\ args.skip_text =>
       /\ \A k \in DOMAIN calls : StageOf(calls[k]) # 4
       /\ \A f \in DOMAIN files : ~IsTextFile(f)
       /\ llm.generator = None
       /\ pc # "text"
  /\ (~args.skip_text /\ pc = "done") =>
       \A i \in 1..Len(CONTENT_TYPES) : File(CONTENT_TYPES[i]) \in DOMAIN files
  /\ Cardinality(AnalysisRequests) <= 1
  /\ pc \in {"parse", "save", "step3", "v_long", "concat_cut", "concat_list", "concat_run", "v_short",
             "short_clip", "step4", "text", "done"} => Cardinality(AnalysisRequests) = 1
  /\ pc \in {"step3", "v_long", "concat_cut", "concat_list", "concat_run", "v_short",
             "short_clip", "step4", "text", "done"} => ANALYSIS \in DOMAIN files

\* C17 witness: with all three flags set and a transcript in place the run made
\* the analysis request, saved the analysis and ended with nothing else done.
C17_Witness ==
  /\ args = [skip_transcription |-> TRUE, skip_video |-> TRUE, skip_text |-> TRUE]
  /\ pc = "exit"
  /\ exit_code = 0
  /\ Len(calls) = 1
  /\ StageOf(calls[1]) = 2
  /\ DOMAIN files = {TRANSCRIPT, ANALYSIS}

====
